---- MODULE Spec2Model ----
(***************************************************************************)
(* Model of wtgseal/maker.py: the block builders (setup_blank_line,        *)
(* setup_header, setup_import, setup_task, setup_taskset, setup_locust),   *)
(* the line renderer cmddef_to_str and the emitter write_locust.           *)
(*                                                                         *)
(* A Python str is a TLA+ string, a CmdDef is a pair <<level, text>>, a    *)
(* BlockDef is a sequence of such pairs.  A dynamically typed argument is  *)
(* a record carrying the name of its Python type next to its value, and,   *)
(* where the code uses isinstance(), the classes of its type's method      *)
(* resolution order (the type and all its bases), so that the type() and   *)
(* isinstance() checks of the code can be evaluated, subclasses included.  *)
(***************************************************************************)
EXTENDS Integers, Sequences, FiniteSets, TLC

VARIABLES
    fs,          \* the file system: path name -> [exists, data]
    defaultUri,  \* the list object bound to setup_task's default `uri`
    call,        \* the last call made: function name and arguments
    result,      \* what the last call produced: exception, block, string
    uriAfter,    \* the `uri` argument object of the last call, after the call
    hadData,     \* the target file held non-empty content when the call began
    pinned       \* one earlier builder call and its result, kept to compare

vars == <<fs, defaultUri, call, result, uriAfter, hadData, pinned>>

(***************************************************************************)
(* Bounds of the explored inputs.                                          *)
(***************************************************************************)
MaxN == 2          \* blank-line counts range over -MaxN..MaxN
MaxLevel == 2      \* indentation levels range over MinLevel..MaxLevel
MaxUris == 2       \* URI lists have at most MaxUris entries
MaxBlockLen == 2   \* written blocks have at most MaxBlockLen entries

MinLevel == 0 - 1

(***************************************************************************)
(* Python built-ins used by the code.                                      *)
(***************************************************************************)

\* str * int: the string repeated n times, empty when n <= 0.
RECURSIVE StrMul(_, _)
StrMul(s, n) == IF n <= 0 THEN "" ELSE s \o StrMul(s, n - 1)

\* list * int: the list repeated n times, empty when n <= 0.
RECURSIVE ListMul(_, _)
ListMul(lst, n) == IF n <= 0 THEN <<>> ELSE lst \o ListMul(lst, n - 1)

\* format() of an int inside an f-string: its decimal digits.
FormatInt(i) == ToString(i)

\* isinstance(obj, cls): cls is the type of obj or one of its bases.
isinstance(obj, cls) == cls \in obj.mro

\* The outcome of a call: the exception raised (or "" for a normal return),
\* the returned block and the returned string.
Return(block) == [exc |-> "", ret |-> block, str |-> ""]
ReturnStr(s) == [exc |-> "", ret |-> <<>>, str |-> s]
Raise(e) == [exc |-> e, ret |-> <<>>, str |-> ""]

(***************************************************************************)
(* cmddef_to_str: indentation, command, newline.                           *)
(***************************************************************************)
DefaultIndentby == StrMul(" ", 4)

cmddef_to_str_no_newline(cmddef, indentby) ==
    LET level == cmddef[1]
        cmd == cmddef[2]
    IN  StrMul(indentby, level) \o cmd

cmddef_to_str(cmddef, indentby) ==
    LET level == cmddef[1]
        cmd == cmddef[2]
    IN  StrMul(indentby, level) \o cmd \o "\n"

(***************************************************************************)
(* setup_blank_line: n blank lines, n checked to be exactly an int.        *)
(***************************************************************************)
setup_blank_line_off_by_one(n) ==
    IF n.type # "int"
    THEN Raise("TypeError")
    ELSE Return(ListMul(<< <<0, "">> >>, n.val + 1))

setup_blank_line(n) ==
    IF n.type # "int"
    THEN Raise("TypeError")
    ELSE Return(ListMul(<< <<0, "">> >>, n.val))

DefaultN == [type |-> "int", val |-> 1]

(***************************************************************************)
(* setup_header, setup_import, setup_taskset.                              *)
(***************************************************************************)
setup_header(dist, version, url) ==
    LET header0 == <<>>
        header1 == Append(header0,
            <<0, "# locust file generated by " \o dist
                 \o " (release " \o version \o ")">>)
        header2 == Append(header1,
            <<0, "# See " \o url \o " for more information">>)
    IN  Return(header2)

setup_import ==
    LET imports0 == <<>>
        imports1 == Append(imports0,
            <<0, "from locust import HttpLocust, TaskSet, task">>)
        imports2 == Append(imports1, <<0, "from scipy.stats import pareto">>)
    IN  Return(imports2)

setup_taskset(name) == Return(<< <<0, "class " \o name \o "(TaskSet):">> >>)

(***************************************************************************)
(* setup_task: decorator line, def line, one GET line per URI.             *)
(***************************************************************************)

\* `for req in uri: task.append(...)`, the requests one level deeper.
RECURSIVE ForReq(_, _, _)
ForReq(task, items, indlevel) ==
    IF items = <<>>
    THEN task
    ELSE ForReq(Append(task, <<indlevel + 1,
                               "self.client.get(\"" \o Head(items) \o "\")">>),
                Tail(items), indlevel)

\* Mutant: the type check lets a tuple through as well.
setup_task_any_sequence(name, weight, uri, indlevel) ==
    IF isinstance(uri, "list") \/ isinstance(uri, "tuple")
    THEN LET task0 == <<>>
             task1 == Append(task0, <<indlevel, "@task(" \o FormatInt(weight) \o ")">>)
             task2 == Append(task1, <<indlevel, "def " \o name \o "(self):">>)
         IN  [out |-> Return(ForReq(task2, uri.items, indlevel)), uri |-> uri]
    ELSE [out |-> Raise("TypeError"), uri |-> uri]

\* Mutant: the requests are consumed from the list (uri.pop(0) in a loop).
setup_task_popping(name, weight, uri, indlevel) ==
    IF isinstance(uri, "list")
    THEN LET task0 == <<>>
             task1 == Append(task0, <<indlevel, "@task(" \o FormatInt(weight) \o ")">>)
             task2 == Append(task1, <<indlevel, "def " \o name \o "(self):">>)
         IN  [out |-> Return(ForReq(task2, uri.items, indlevel)),
              uri |-> [uri EXCEPT !.items = <<>>]]
    ELSE [out |-> Raise("TypeError"), uri |-> uri]

\* Mutant: the requests are not nested below the def line.
setup_task_flat(name, weight, uri, indlevel) ==
    IF isinstance(uri, "list")
    THEN LET task0 == <<>>
             task1 == Append(task0, <<indlevel, "@task(" \o FormatInt(weight) \o ")">>)
             task2 == Append(task1, <<indlevel, "def " \o name \o "(self):">>)
         IN  [out |-> Return(ForReq(task2, uri.items, indlevel - 1)), uri |-> uri]
    ELSE [out |-> Raise("TypeError"), uri |-> uri]

\* out: the outcome of the call; uri: the argument object after the call.
setup_task(name, weight, uri, indlevel) ==
    IF isinstance(uri, "list")
    THEN LET task0 == <<>>
             task1 == Append(task0, <<indlevel, "@task(" \o FormatInt(weight) \o ")">>)
             task2 == Append(task1, <<indlevel, "def " \o name \o "(self):">>)
         IN  [out |-> Return(ForReq(task2, uri.items, indlevel)), uri |-> uri]
    ELSE [out |-> Raise("TypeError"), uri |-> uri]

(***************************************************************************)
(* setup_locust: the user-behaviour class with its Pareto wait time.       *)
(***************************************************************************)

\* Mutant: the class body is not indented below the class line.
setup_locust_dedent(name, taskset, weight, indlevel) ==
    LET locust0 == << <<indlevel - 1, "class " \o name \o "(HttpLocust):">>,
                      <<indlevel, "weight = " \o FormatInt(weight)>>,
                      <<indlevel, "task_set = " \o taskset>>,
                      <<indlevel, "pareto_obj = pareto(b=1.4, scale=1)">>,
                      <<indlevel, "pareto_obj.random_state = 1">> >>
        locust1 == locust0 \o setup_blank_line(DefaultN).ret
        locust2 == locust1 \o
                   << <<indlevel, "def wait_time(self):">>,
                      <<indlevel + 1, "return self.pareto_obj.rvs()">> >>
    IN  Return(locust2)

\* Mutant: the separating blank line is left out.
setup_locust_no_blank(name, taskset, weight, indlevel) ==
    LET locust0 == << <<indlevel, "class " \o name \o "(HttpLocust):">>,
                      <<indlevel + 1, "weight = " \o FormatInt(weight)>>,
                      <<indlevel + 1, "task_set = " \o taskset>>,
                      <<indlevel + 1, "pareto_obj = pareto(b=1.4, scale=1)">>,
                      <<indlevel + 1, "pareto_obj.random_state = 1">> >>
        locust2 == locust0 \o
                   << <<indlevel + 1, "def wait_time(self):">>,
                      <<indlevel + 2, "return self.pareto_obj.rvs()">> >>
    IN  Return(locust2)

setup_locust(name, taskset, weight, indlevel) ==
    LET locust0 == << <<indlevel, "class " \o name \o "(HttpLocust):">>,
                      <<indlevel + 1, "weight = " \o FormatInt(weight)>>,
                      <<indlevel + 1, "task_set = " \o taskset>>,
                      <<indlevel + 1, "pareto_obj = pareto(b=1.4, scale=1)">>,
                      <<indlevel + 1, "pareto_obj.random_state = 1">> >>
        locust1 == locust0 \o setup_blank_line(DefaultN).ret
        locust2 == locust1 \o
                   << <<indlevel + 1, "def wait_time(self):">>,
                      <<indlevel + 2, "return self.pareto_obj.rvs()">> >>
    IN  Return(locust2)

(***************************************************************************)
(* write_locust: type checks, then open(mode='w') and one write per line.  *)
(***************************************************************************)

\* Mutant: path.open(mode='a') keeps what the file held.
path_open_a(file) == [exists |-> TRUE, data |-> file.data]

\* path.open(mode='w'): the file exists afterwards and is empty.
path_open_w(file) == [exists |-> TRUE, data |-> ""]

\* `for cmddef in filedef: fd.write(cmddef_to_str(cmddef, indentby))`
RECURSIVE ForCmddef(_, _, _)
ForCmddef(file, items, indentby) ==
    IF items = <<>>
    THEN file
    ELSE ForCmddef([file EXCEPT !.data = @ \o cmddef_to_str(Head(items), indentby)],
                   Tail(items), indentby)

\* Mutant: the file is opened before filedef is checked.
write_locust_late_check(path, filedef, indentby, files) ==
    IF ~isinstance(path, "Path")
    THEN [out |-> Raise("TypeError"), fs |-> files]
    ELSE IF ~isinstance(filedef, "list")
         THEN [out |-> Raise("TypeError"),
               fs |-> [files EXCEPT ![path.name] = path_open_w(@)]]
         ELSE [out |-> Return(<<>>),
               fs |-> [files EXCEPT ![path.name] =
                          ForCmddef(path_open_w(@), filedef.items, indentby)]]

\* out: the outcome of the call; fs: the file system after the call.
write_locust(path, filedef, indentby, files) ==
    IF ~isinstance(path, "Path")
    THEN [out |-> Raise("TypeError"), fs |-> files]
    ELSE IF ~isinstance(filedef, "list")
         THEN [out |-> Raise("TypeError"), fs |-> files]
         ELSE [out |-> Return(<<>>),
               fs |-> [files EXCEPT ![path.name] =
                          ForCmddef(path_open_w(@), filedef.items, indentby)]]

(***************************************************************************)
(* The inputs explored.                                                    *)
(***************************************************************************)
\* The classes in the method resolution order of the types of the inputs:
\* built-in types, pathlib's PosixPath, and two classes a caller defines,
\* MyList(list) and MyPath(PosixPath).
Mro(t) ==
    CASE t = "list" -> {"list", "object"}
      [] t = "MyList" -> {"MyList", "list", "object"}
      [] t = "tuple" -> {"tuple", "object"}
      [] t = "str" -> {"str", "object"}
      [] t = "int" -> {"int", "object"}
      [] t = "NoneType" -> {"NoneType", "object"}
      [] t = "PosixPath" ->
            {"PosixPath", "Path", "PurePosixPath", "PurePath", "object"}
      [] t = "MyPath" ->
            {"MyPath", "PosixPath", "Path", "PurePosixPath", "PurePath", "object"}

\* A list-like or path-like argument of type t.
Items(t, items) == [type |-> t, mro |-> Mro(t), items |-> items]
PathObj(t, name) == [type |-> t, mro |-> Mro(t), name |-> name]

TargetPath == "locustfile.py"
Paths == {TargetPath}

\* Sequences over S of length at most n.
SeqUpTo(S, n) == UNION {[1..k -> S] : k \in 0..n}

\* Arguments of setup_blank_line: ints of either sign, and values of other
\* types (True, 1.0, "1", None) standing next to the int they resemble.
BlankArgs ==
    [type : {"int"}, val : (0 - MaxN)..MaxN]
    \cup [type : {"bool", "float", "str", "NoneType"}, val : {1}]

Dists == {"wtgseal"}
Versions == {"0.1.0", "1.0"}
Urls == {"https://example.org/wtg-seal"}
TaskSetNames == {"MyTaskSet", "TS"}
Uris == {"/", "/a"}

\* Name and weight of a task: the defaults, and another pair.
TaskArgs == {[name |-> "task0", weight |-> 1], [name |-> "t1", weight |-> 2]}

\* Name, task set and weight of a locust: the defaults, and another triple.
LocustArgs ==
    {[name |-> "MyLocust", taskset |-> "MyTaskSet", weight |-> 1],
     [name |-> "User", taskset |-> "TS", weight |-> 2]}
IndLevels == MinLevel..MaxLevel

\* The `uri` argument left out, so that the default list object is used.
OmittedUri == [type |-> "default", mro |-> {}, items |-> <<>>]

\* Arguments passed for `uri`: lists, an instance of a subclass of list,
\* and values that are not lists.
UriArgs ==
    {Items("list", u) : u \in SeqUpTo(Uris, MaxUris)}
    \cup {Items("MyList", <<"/a">>),
          Items("tuple", <<"/a">>),
          Items("str", <<"/", "a">>),
          Items("int", <<>>),
          Items("NoneType", <<>>)}

Texts == {"", "x"}
Indentbys == {"  ", "\t"}
CmdDefs == IndLevels \X Texts

\* Blocks handed to write_locust: a blank line, a command, a nested command.
LineRecords == {<<0, "">>, <<0, "x">>, <<1, "x">>}
FiledefArgs ==
    {Items("list", b) : b \in SeqUpTo(LineRecords, MaxBlockLen)}
    \cup {Items("MyList", << <<0, "x">> >>),
          Items("tuple", << <<0, "x">> >>),
          Items("int", <<>>),
          Items("NoneType", <<>>)}

PathArgs ==
    {PathObj("PosixPath", TargetPath),
     PathObj("MyPath", TargetPath),
     PathObj("str", TargetPath),
     PathObj("NoneType", "")}

NoCall ==
    [op |-> "none", n |-> DefaultN, dist |-> "", version |-> "", url |-> "",
     name |-> "", taskset |-> "", weight |-> 0, uri |-> OmittedUri,
     indlevel |-> 0, cmddef |-> <<0, "">>,
     path |-> PathObj("NoneType", ""),
     filedef |-> Items("NoneType", <<>>),
     indentby |-> "", dflt |-> FALSE]

(***************************************************************************)
(* The state after import of the module, and one action per function.      *)
(***************************************************************************)
Init ==
    /\ fs \in [Paths -> {[exists |-> FALSE, data |-> ""],
                         [exists |-> TRUE, data |-> "# old\n"]}]
    /\ defaultUri = <<"/">>
    /\ call = NoCall
    /\ result = Return(<<>>)
    /\ uriAfter = OmittedUri
    /\ hadData = FALSE
    /\ pinned = [set |-> FALSE, call |-> NoCall, result |-> Return(<<>>)]

\* What every call records; pin says whether the call made before this one
\* and its result are kept, to be compared with this and every later call.
Record(c, r, ua, pin) ==
    /\ call' = c
    /\ result' = r
    /\ uriAfter' = ua
    /\ hadData' = (fs[TargetPath].exists /\ fs[TargetPath].data # "")
    /\ pinned' = IF pin THEN [set |-> TRUE, call |-> call, result |-> result]
                         ELSE pinned

CmddefToStr(pin) ==
    \E cmddef \in CmdDefs, dflt \in BOOLEAN :
      \E unit \in IF dflt THEN {DefaultIndentby} ELSE Indentbys :
        LET c == [NoCall EXCEPT !.op = "cmddef_to_str", !.cmddef = cmddef,
                                !.indentby = unit, !.dflt = dflt]
        IN  /\ Record(c, ReturnStr(cmddef_to_str(cmddef, unit)), OmittedUri, pin)
            /\ UNCHANGED <<fs, defaultUri>>

SetupBlankLine(pin) ==
    \E n \in BlankArgs :
        /\ Record([NoCall EXCEPT !.op = "setup_blank_line", !.n = n],
                  setup_blank_line(n), OmittedUri, pin)
        /\ UNCHANGED <<fs, defaultUri>>

SetupHeader(pin) ==
    \E dist \in Dists, version \in Versions, url \in Urls :
        /\ Record([NoCall EXCEPT !.op = "setup_header", !.dist = dist,
                                 !.version = version, !.url = url],
                  setup_header(dist, version, url), OmittedUri, pin)
        /\ UNCHANGED <<fs, defaultUri>>

SetupImport(pin) ==
    /\ Record([NoCall EXCEPT !.op = "setup_import"], setup_import, OmittedUri, pin)
    /\ UNCHANGED <<fs, defaultUri>>

\* With `uri` left out the call works on the shared default list object,
\* which keeps whatever the call did to it.
SetupTask(pin) ==
    \E t \in TaskArgs, uri \in UriArgs \cup {OmittedUri}, indlevel \in IndLevels :
        LET omitted == uri = OmittedUri
            arg == IF omitted THEN Items("list", defaultUri) ELSE uri
            r == setup_task(t.name, t.weight, arg, indlevel)
        IN  /\ Record([NoCall EXCEPT !.op = "setup_task", !.name = t.name,
                                     !.weight = t.weight, !.uri = uri,
                                     !.indlevel = indlevel],
                      r.out, r.uri, pin)
            /\ defaultUri' = IF omitted THEN r.uri.items ELSE defaultUri
            /\ UNCHANGED fs

SetupTaskset(pin) ==
    \E name \in TaskSetNames :
        /\ Record([NoCall EXCEPT !.op = "setup_taskset", !.name = name],
                  setup_taskset(name), OmittedUri, pin)
        /\ UNCHANGED <<fs, defaultUri>>

SetupLocust(pin) ==
    \E l \in LocustArgs, indlevel \in IndLevels :
        /\ Record([NoCall EXCEPT !.op = "setup_locust", !.name = l.name,
                                 !.taskset = l.taskset, !.weight = l.weight,
                                 !.indlevel = indlevel],
                  setup_locust(l.name, l.taskset, l.weight, indlevel),
                  OmittedUri, pin)
        /\ UNCHANGED <<fs, defaultUri>>

WriteLocust ==
    \E path \in PathArgs, filedef \in FiledefArgs, dflt \in BOOLEAN :
      \E unit \in IF dflt THEN {DefaultIndentby} ELSE Indentbys :
        LET r == write_locust(path, filedef, unit, fs)
        IN  /\ Record([NoCall EXCEPT !.op = "write_locust", !.path = path,
                                     !.filedef = filedef, !.indentby = unit,
                                     !.dflt = dflt],
                      r.out, OmittedUri, FALSE)
            /\ fs' = r.fs
            /\ UNCHANGED defaultUri

\* Every function of the module, called in any order.
Next ==
    \/ CmddefToStr(FALSE)
    \/ SetupBlankLine(FALSE)
    \/ SetupHeader(FALSE)
    \/ SetupImport(FALSE)
    \/ SetupTask(FALSE)
    \/ SetupTaskset(FALSE)
    \/ SetupLocust(FALSE)
    \/ WriteLocust

Spec == Init /\ [][Next]_vars

\* The emitter: lines rendered and blocks written, in any order.
NextEmitter ==
    \/ CmddefToStr(FALSE)
    \/ WriteLocust

SpecEmitter == Init /\ [][NextEmitter]_vars

\* The state the builders start from: nothing written yet.
InitBuilders == Init /\ ~fs[TargetPath].exists

\* The builders, called in any order.
NextBuilders ==
    \/ SetupBlankLine(FALSE)
    \/ SetupHeader(FALSE)
    \/ SetupImport(FALSE)
    \/ SetupTask(FALSE)
    \/ SetupTaskset(FALSE)
    \/ SetupLocust(FALSE)

SpecBuilders == InitBuilders /\ [][NextBuilders]_vars

\* The builders, called in any order; once in the run the call just made is
\* kept, to be compared with every later call.
MayPin == {FALSE, ~pinned.set /\ call.op # "none"}

NextPinned ==
    \/ \E pin \in MayPin : SetupBlankLine(pin)
    \/ \E pin \in MayPin : SetupHeader(pin)
    \/ \E pin \in MayPin : SetupImport(pin)
    \/ \E pin \in MayPin : SetupTask(pin)
    \/ \E pin \in MayPin : SetupTaskset(pin)
    \/ \E pin \in MayPin : SetupLocust(pin)

SpecPinned == InitBuilders /\ [][NextPinned]_vars

(***************************************************************************)
(* Properties.                                                             *)
(***************************************************************************)

\* The object is a sequence (collections.abc.Sequence): a list, a tuple, a
\* str, or an instance of a subclass of one of them.
IsSequence(obj) == obj.mro \cap {"list", "tuple", "str"} # {}

\* The object is a list: an instance of list or of a subclass of list.
IsList(obj) == "list" \in obj.mro

\* The object is a path: an instance of pathlib.Path or of a subclass.
IsPath(obj) == "Path" \in obj.mro

\* The `uri` object a setup_task call works on.
UriObj(c) == IF c.uri = OmittedUri THEN Items("list", <<"/">>) ELSE c.uri

Builders == {"setup_blank_line", "setup_header", "setup_import",
             "setup_task", "setup_taskset", "setup_locust"}

\* The renderings of the entries of a block, joined in block order.
Rendered(block, unit) ==
    LET cat[i \in 0..Len(block)] ==
            IF i = 0 THEN "" ELSE cat[i - 1] \o cmddef_to_str(block[i], unit)
    IN  cat[Len(block)]

\* unit, k times over.
Repeated(unit, k) ==
    LET pad[i \in 0..k] == IF i = 0 THEN "" ELSE unit \o pad[i - 1]
    IN  pad[k]

\* C1: after write_locust returns for a path and a list of (level, text)
\* pairs, the file holds exactly the renderings of the entries in block
\* order, and nothing of what it held before.
C1_WriteRoundTrip ==
    (call.op = "write_locust" /\ IsPath(call.path) /\ IsList(call.filedef))
    => /\ result.exc = ""
       /\ fs[call.path.name].exists
       /\ fs[call.path.name].data = Rendered(call.filedef.items, call.indentby)

C1_Witness ==
    /\ call.op = "write_locust"
    /\ call.path.type = "PosixPath"
    /\ call.filedef = Items("list", << <<0, "x">>, <<1, "x">> >>)
    /\ hadData
    /\ result.exc = ""

\* C2: a write_locust call whose path is not a path, or whose block is not
\* a sequence, raises TypeError and leaves the file system as it was.
C2_WriteRejectsUnchanged ==
    [][(call'.op = "write_locust"
          /\ (~IsPath(call'.path) \/ ~IsSequence(call'.filedef)))
       => (result'.exc = "TypeError" /\ fs' = fs)]_vars

C2_Witness ==
    /\ call.op = "write_locust"
    /\ call.path.type = "PosixPath"
    /\ call.filedef.type = "int"
    /\ result.exc = "TypeError"
    /\ hadData
    /\ fs[TargetPath].exists
    /\ fs[TargetPath].data # ""

\* C3: setup_blank_line raises TypeError for every negative integer and for
\* every argument that is not of type int.
C3_BlankLineRejects ==
    (call.op = "setup_blank_line" /\ (call.n.type # "int" \/ call.n.val < 0))
    => (result.exc = "TypeError" /\ result.ret = <<>>)

\* C4, as claimed: every line record a builder returns, for any integer
\* indentation level, has a level >= 0.
C4_LevelsNonNegative ==
    (call.op \in Builders /\ result.exc = "")
    => \A i \in 1..Len(result.ret) : result.ret[i][1] >= 0

\* C4, amended: every line record a builder returns for an indentation
\* level >= 0 has a level >= 0.
C4_LevelsNonNegativeFromNonNegative ==
    (call.op \in Builders /\ result.exc = "" /\ call.indlevel >= 0)
    => \A i \in 1..Len(result.ret) : result.ret[i][1] >= 0

C4_Witness ==
    /\ call.op = "setup_locust"
    /\ call.indlevel = 0
    /\ result.exc = ""
    /\ Len(result.ret) > 0

\* C5, as claimed: setup_task raises TypeError, returning no line, when uri
\* is not a sequence, and returns a block when uri is a sequence.
C5_TaskAcceptsSequences ==
    call.op = "setup_task"
    => /\ ~IsSequence(UriObj(call))
            => (result.exc = "TypeError" /\ result.ret = <<>>)
       /\ IsSequence(UriObj(call))
            => (result.exc = "" /\ Len(result.ret) >= 2)

\* C5, amended: setup_task raises TypeError, returning no line, when uri is
\* not an instance of list (a tuple and a str included), and returns a
\* block when uri is an instance of list or of a subclass of list.
C5_TaskAcceptsLists ==
    call.op = "setup_task"
    => /\ ~IsList(UriObj(call))
            => (result.exc = "TypeError" /\ result.ret = <<>>)
       /\ IsList(UriObj(call))
            => (result.exc = "" /\ Len(result.ret) >= 2)

C5_Witness ==
    /\ call.op = "setup_task"
    /\ call.uri.type = "tuple"
    /\ result.exc = "TypeError"

\* C6: for a list u of k URIs, setup_task returns 2 + k line records: the
\* decorator and the def line at level L, then one GET line per URI at
\* level L + 1, in the order of u, the URI verbatim.
C6_TaskBlockShape ==
    (call.op = "setup_task" /\ IsList(UriObj(call)))
    => LET u == IF call.uri = OmittedUri THEN <<"/">> ELSE call.uri.items
           L == call.indlevel
       IN  /\ result.exc = ""
           /\ Len(result.ret) = 2 + Len(u)
           /\ result.ret[1] = <<L, "@task(" \o ToString(call.weight) \o ")">>
           /\ result.ret[2] = <<L, "def " \o call.name \o "(self):">>
           /\ \A i \in 1..Len(u) :
                 result.ret[2 + i] =
                     <<L + 1, "self.client.get(\"" \o u[i] \o "\")">>

C6_Witness ==
    /\ call.op = "setup_task"
    /\ call.name = "t1"
    /\ call.weight = 2
    /\ call.uri = Items("list", <<"/a", "/">>)
    /\ call.indlevel = 0
    /\ Len(result.ret) = 4
    /\ result.ret[3] = <<1, "self.client.get(\"/a\")">>
    /\ result.ret[4] = <<1, "self.client.get(\"/\")">>

\* C7: for an int n >= 0, setup_blank_line returns n line records, each
\* (0, "").
C7_BlankLineCount ==
    (call.op = "setup_blank_line" /\ call.n.type = "int" /\ call.n.val >= 0)
    => /\ result.exc = ""
       /\ Len(result.ret) = call.n.val
       /\ \A i \in 1..Len(result.ret) : result.ret[i] = <<0, "">>

C7_Witness ==
    /\ call.op = "setup_blank_line"
    /\ call.n = [type |-> "int", val |-> 2]
    /\ result.ret = << <<0, "">>, <<0, "">> >>

\* C8: for a level >= 0, cmddef_to_str returns the indent unit repeated
\* level times, then the text, then one newline; nothing precedes the text
\* at level 0, and the unit left out is four spaces.
C8_RenderLine ==
    (call.op = "cmddef_to_str" /\ call.cmddef[1] >= 0)
    => LET level == call.cmddef[1]
           text == call.cmddef[2]
           unit == IF call.dflt THEN "    " ELSE call.indentby
       IN  /\ result.exc = ""
           /\ result.str = Repeated(unit, level) \o text \o "\n"
           /\ Len(result.str) = level * Len(unit) + Len(text) + 1
           /\ level = 0 => result.str = text \o "\n"
           /\ (level = 2 /\ text = "x" /\ unit = "  ") => result.str = "    x\n"

C8_Witness ==
    /\ call.op = "cmddef_to_str"
    /\ call.cmddef = <<2, "x">>
    /\ ~call.dflt
    /\ call.indentby = "  "
    /\ result.str = "    x\n"

\* C9: setup_locust returns, in this order, the class line at level L, the
\* weight, task-set, Pareto and seed lines at level L + 1, one blank line
\* record, the wait_time line at level L + 1 and its body at level L + 2.
C9_LocustBlockShape ==
    call.op = "setup_locust"
    => LET L == call.indlevel
       IN  /\ result.exc = ""
           /\ Len(result.ret) = 8
           /\ result.ret[1] = <<L, "class " \o call.name \o "(HttpLocust):">>
           /\ result.ret[2] = <<L + 1, "weight = " \o ToString(call.weight)>>
           /\ result.ret[3] = <<L + 1, "task_set = " \o call.taskset>>
           /\ result.ret[4] = <<L + 1, "pareto_obj = pareto(b=1.4, scale=1)">>
           /\ result.ret[5] = <<L + 1, "pareto_obj.random_state = 1">>
           /\ result.ret[6] = <<0, "">>
           /\ result.ret[7] = <<L + 1, "def wait_time(self):">>
           /\ result.ret[8] = <<L + 2, "return self.pareto_obj.rvs()">>

C9_Witness ==
    /\ call.op = "setup_locust"
    /\ call.name = "User"
    /\ call.indlevel = 1
    /\ Len(result.ret) = 8
    /\ result.ret[8] = <<3, "return self.pareto_obj.rvs()">>

\* C10: a builder called again with the same arguments returns an equal
\* block whatever was called in between, setup_task leaves the list it was
\* passed unchanged, the default URI list stays ["/"], setup_task() with
\* its defaults returns the same 3 lines and setup_import() the same 2.
C10_BuildersPure ==
    /\ (pinned.set /\ pinned.call = call) => pinned.result = result
    /\ (call.op = "setup_task" /\ call.uri # OmittedUri) => uriAfter = call.uri
    /\ defaultUri = <<"/">>
    /\ (call.op = "setup_task" /\ call.uri = OmittedUri /\ call.name = "task0"
          /\ call.weight = 1 /\ call.indlevel = 0)
       => result.ret = << <<0, "@task(1)">>, <<0, "def task0(self):">>,
                          <<1, "self.client.get(\"/\")">> >>
    /\ call.op = "setup_import"
       => result.ret = << <<0, "from locust import HttpLocust, TaskSet, task">>,
                          <<0, "from scipy.stats import pareto">> >>

C10_Witness ==
    /\ pinned.set
    /\ pinned.call = call
    /\ call.op = "setup_task"
    /\ call.uri = OmittedUri
    /\ Len(result.ret) = 3

====
